---- MODULE Spec2Model ----
(* A model of nix-du's dependency graph (src/src/depgraph.rs) and of its      *)
(* hardlink handling (src/src/opt.rs): DepInfos construction, the reachable   *)
(* size, the refinement of an optimised store and the store-optimisation      *)
(* detector.  Byte strings are sequences of one-character strings.  The       *)
(* filesystem is an environment: its content is part of the state and never   *)
(* changes, its I/O errors are chosen at each call.                           *)
EXTENDS Integers, Sequences, FiniteSets, TLC

VARIABLES
    nodes,          \* di.graph: node weights (Derivation), index = position
    edges,          \* di.graph: edge list in insertion order, <<from, to>>
    roots,          \* di.roots
    pc,             \* position of the program
    result,         \* value returned by the operation that ran last
    dir,            \* filesystem: the entries of the .links directory
    inspected,      \* store_is_optimised: entries taken from read_dir so far
    stack,          \* Dfs.stack
    discovered,     \* Dfs.discovered
    sum,            \* reachable_size: the accumulator
    yielded,        \* nodes returned by Dfs::next so far, in order
    tree,           \* filesystem: store path -> entries its walk yields
    flen,           \* filesystem: inode -> byte length of the file
    inode_to_owner, \* refine_optimized_store: the inode map
    indices,        \* refine_optimized_store: the node indices collected
    pos,            \* refine_optimized_store: position in indices
    wpos,           \* refine_optimized_store: position of the walker
    passes,         \* number of refinement passes started
    hist            \* the node weights at the start of each pass

vars == <<nodes, edges, roots, pc, result, dir, inspected, stack, discovered,
          sum, yielded, tree, flen, inode_to_owner, indices, pos, wpos,
          passes, hist>>

graphVars == <<nodes, edges, roots>>
optVars == <<dir, inspected>>
dfsVars == <<stack, discovered, sum, yielded>>
fsVars == <<tree, flen>>
refineVars == <<inode_to_owner, indices, pos, wpos, passes, hist>>

-----------------------------------------------------------------------------
(* Bounds of the model.                                                      *)

MaxDir == 12        \* entries of the .links directory
MaxSpecial == 2     \* entries of .links that are not a file with one link
MaxEntries == 2     \* entries the walk of one store path yields
MaxIno == 2         \* distinct inodes
MaxLen == 2         \* byte length of a file
MaxPasses == 2      \* refinement passes

-----------------------------------------------------------------------------
(* Helpers on sequences.                                                     *)

Range(s) == {s[i] : i \in DOMAIN s}

Min(a, b) == IF a < b THEN a ELSE b

RECURSIVE SeqSum(_)
SeqSum(s) == IF s = <<>> THEN 0 ELSE Head(s) + SeqSum(Tail(s))

RECURSIVE Reverse(_)
Reverse(s) == IF s = <<>> THEN <<>> ELSE Append(Reverse(Tail(s)), Head(s))

-----------------------------------------------------------------------------
(* Derivation (depgraph.rs).                                                 *)

Derivation(p, s, r) == [path |-> p, size |-> s, is_root |-> r]

\* memchr::memchr: index of the first occurrence, 0 when absent
memchr(c, s) ==
    IF \E i \in DOMAIN s : s[i] = c
    THEN CHOOSE i \in DOMAIN s : s[i] = c /\ \A j \in 1..(i - 1) : s[j] /= c
    ELSE 0

\* memchr::memrchr: index of the last occurrence, 0 when absent
memrchr(c, s) ==
    IF \E i \in DOMAIN s : s[i] = c
    THEN CHOOSE i \in DOMAIN s : s[i] = c /\ \A j \in (i + 1)..Len(s) : s[j] /= c
    ELSE 0

\* the name cut after the last '-' of the last component
name_LastDash(d) ==
    LET whole == d.path
    IN IF d.is_root THEN whole
       ELSE LET i == memrchr("/", whole)
            IN IF i = 0 THEN whole
               ELSE LET rest == SubSeq(whole, i + 1, Len(whole))
                        j == memrchr("-", rest)
                    IN IF j = 0 THEN rest ELSE SubSeq(rest, j + 1, Len(rest))

\* Derivation::name, lines 51-67
name(d) ==
    LET whole == d.path
    IN IF d.is_root THEN whole
       ELSE LET i == memrchr("/", whole)
            IN IF i = 0 THEN whole
               ELSE LET rest == SubSeq(whole, i + 1, Len(whole))
                        j == memchr("-", rest)
                    IN IF j = 0 THEN rest ELSE SubSeq(rest, j + 1, Len(rest))

\* Option<T>
None == [some |-> FALSE]
Some(x) == [some |-> TRUE, v |-> x]

\* path_as_os_str: None unless the path begins with '/'
path_as_os_str(d) ==
    IF Len(d.path) = 0 \/ d.path[1] /= "/" THEN None ELSE Some(d.path)

-----------------------------------------------------------------------------
(* DepGraph (petgraph::Graph) and DepInfos.                                  *)

NodeIndices == 1..Len(nodes)

\* Graph::neighbors: targets of the outgoing edges, the edge added last first
neighbors(es, n) ==
    LET out == SelectSeq(es, LAMBDA e : e[1] = n)
    IN Reverse([i \in DOMAIN out |-> out[i][2]])

\* Graph::externals(Incoming): the nodes without incoming edge
externals_incoming(ns, es) ==
    {n \in DOMAIN ns : \A i \in DOMAIN es : es[i][2] /= n}

\* the filter_map of new_from_graph: indices of the is_root nodes, in order
RootIndices(ns) ==
    SelectSeq([i \in DOMAIN ns |-> i], LAMBDA i : ns[i].is_root)

roots_attr_coherent_of(ns, es, rs) ==
    LET from_nodes == {n \in DOMAIN ns : ns[n].is_root}
        from_attr == Range(rs)
        from_structure == externals_incoming(ns, es)
    IN from_attr = from_nodes /\ from_nodes \subseteq from_structure

roots_attr_coherent == roots_attr_coherent_of(nodes, edges, roots)

-----------------------------------------------------------------------------
(* The byte strings of the model: paths of nodes and of the filesystem.      *)

P_root == <<"/", "g", "/", "r">>
P_a == <<"/", "s", "/", "h", "-", "a">>
P_b == <<"/", "s", "/", "k", "-", "b">>
P_link == <<"/", "s", "/", "l">>
P_mem == <<"{", "m", "}">>
P_slash == <<"/">>
P_top == <<"/", "t">>

SHARED_PREFIX == <<"s", "h", "a", "r", "e", "d", ":">>
DOT_LINKS == <<".", "l", "i", "n", "k", "s">>

\* where the .links directory of the filesystem lives
LinksDirPath == <<"/", "s", "/">> \o DOT_LINKS

-----------------------------------------------------------------------------
(* std::path::PathBuf, for absolute and relative paths without "." parts.    *)

RECURSIVE StripSlashes(_)
StripSlashes(p) ==
    IF Len(p) > 1 /\ p[Len(p)] = "/" THEN StripSlashes(SubSeq(p, 1, Len(p) - 1))
    ELSE p

\* PathBuf::pop: None when the path has no parent (pop returns false),
\* otherwise the path truncated to its parent
PathPop(p) ==
    LET q == StripSlashes(p)
        i == memrchr("/", q)
    IN IF q = <<>> \/ q = <<"/">> THEN None
       ELSE IF i = 0 THEN Some(<<>>)
       ELSE Some(StripSlashes(SubSeq(q, 1, i)))

\* PathBuf::push of a relative component
PathPush(p, c) ==
    IF p = <<>> \/ p[Len(p)] = "/" THEN p \o c ELSE p \o <<"/">> \o c

-----------------------------------------------------------------------------
(* DepInfos::new_from_graph.                                                 *)

\* debug_assert!(di.roots_attr_coherent()): a build with debug assertions
\* panics on an incoherent graph, a build without them goes on
NewFromGraph ==
    /\ pc = "build"
    /\ roots' = RootIndices(nodes)
    /\ \E debug_assertions \in BOOLEAN :
          pc' = IF debug_assertions
                   /\ ~roots_attr_coherent_of(nodes, edges, RootIndices(nodes))
                THEN "panicked" ELSE "ready"
    /\ UNCHANGED <<nodes, edges, result, optVars, dfsVars, fsVars, refineVars>>

\* what an operation returned: its name and the value
Ret(op, v) == [op |-> op, v |-> v]

NoResult == Ret("none", "none")

-----------------------------------------------------------------------------
(* store_is_optimised (opt.rs).                                              *)

\* take(10) of opt.rs line 137
SampleLimit == 10

\* the iterator without its take(10)
LinksItem_NoTake(d, k) ==
    IF k <= Len(d) THEN [tag |-> "Item", item |-> Some(d[k])]
    ELSE IF k = Len(d) + 1 THEN [tag |-> "Item", item |-> None]
    ELSE [tag |-> "End"]

\* the iterator p.read_dir()?.map(Some).take(10).chain(once(None)):
\* the item at position k (from 1), "End" once the iterator is exhausted
LinksItem(d, k) ==
    IF k <= Min(SampleLimit, Len(d)) THEN [tag |-> "Item", item |-> Some(d[k])]
    ELSE IF k = Min(SampleLimit, Len(d)) + 1 THEN [tag |-> "Item", item |-> None]
    ELSE [tag |-> "End"]

\* the test of line 148 with the bound off by one
HasSeveralLinks_Two(e) == e.nlink > 2

\* the test of line 148: entry.metadata()?.nlink() > 1
HasSeveralLinks(e) == e.nlink > 1

\* lines 120-137 up to the call of read_dir: the directory to list, or the
\* early outcome
LinksDirOf(ns, es, rs) ==
    IF rs = <<>> THEN [tag |-> "None"]
    ELSE IF neighbors(es, rs[1]) = <<>> THEN [tag |-> "Panic"]
    ELSE LET drv == neighbors(es, rs[1])[1]
             p == path_as_os_str(ns[drv])
         IN IF ~p.some THEN [tag |-> "None"]
            ELSE IF ~PathPop(p.v).some THEN [tag |-> "None"]
            ELSE [tag |-> "Dir", p |-> PathPush(PathPop(p.v).v, DOT_LINKS)]

OptRet(v) == Ret("store_is_optimised", v)

\* the call and p.read_dir()? : the listing fails when the directory does not
\* exist, and may fail when it does
OptStart ==
    /\ pc = "ready"
    /\ LET p == LinksDirOf(nodes, edges, roots)
       IN \E io_ok \in BOOLEAN :
            /\ inspected' = 0
            /\ IF p.tag = "None" THEN pc' = "done" /\ result' = OptRet("None")
               ELSE IF p.tag = "Panic" THEN pc' = "panicked" /\ result' = OptRet("Panic")
               ELSE IF p.p /= LinksDirPath \/ ~io_ok
                    THEN pc' = "done" /\ result' = OptRet("Err")
               ELSE pc' = "opt" /\ result' = NoResult
    /\ UNCHANGED <<graphVars, dir, dfsVars, fsVars, refineVars>>

\* one turn of the loop of lines 137-152, and the return of line 153
OptEntry ==
    /\ pc = "opt"
    /\ LET next == LinksItem(dir, inspected + 1)
       IN \E io \in {"ok", "entry_err", "file_type_err", "metadata_err"} :
            IF next.tag = "End"
            THEN /\ pc' = "done" /\ result' = OptRet("SomeFalse")
                 /\ inspected' = inspected
            ELSE IF ~next.item.some
            THEN /\ pc' = "done" /\ result' = OptRet("None")
                 /\ inspected' = inspected
            ELSE /\ inspected' = inspected + 1
                 /\ IF io \in {"entry_err", "file_type_err"}
                    THEN pc' = "done" /\ result' = OptRet("Err")
                    ELSE IF ~next.item.v.is_file
                    THEN pc' = "done" /\ result' = OptRet("None")
                    ELSE IF io = "metadata_err"
                    THEN pc' = "done" /\ result' = OptRet("Err")
                    ELSE IF HasSeveralLinks(next.item.v)
                    THEN pc' = "done" /\ result' = OptRet("SomeTrue")
                    ELSE pc' = "opt" /\ result' = result
    /\ UNCHANGED <<graphVars, dir, dfsVars, fsVars, refineVars>>

-----------------------------------------------------------------------------
(* The inputs of store_is_optimised.                                         *)

PlainFile == [is_file |-> TRUE, nlink |-> 1]

SpecialEntries ==
    {[is_file |-> TRUE, nlink |-> 2], [is_file |-> FALSE, nlink |-> 1],
     [is_file |-> FALSE, nlink |-> 2]}

\* directories of at most MaxDir entries, at most MaxSpecial of them special
DirChoices ==
    UNION {UNION {{[i \in 1..n |-> IF i \in S THEN sp[i] ELSE PlainFile] :
                     sp \in [S -> SpecialEntries]} :
                  S \in {T \in SUBSET (1..n) : Cardinality(T) <= MaxSpecial}} :
           n \in 0..MaxDir}

OptGraphs ==
    { [ns |-> <<Derivation(P_a, 1, FALSE)>>, es |-> <<>>],
      [ns |-> <<Derivation(P_root, 0, TRUE)>>, es |-> <<>>],
      [ns |-> <<Derivation(P_root, 0, TRUE), Derivation(P_a, 1, FALSE)>>,
       es |-> <<<<1, 2>>>>],
      [ns |-> <<Derivation(P_root, 0, TRUE), Derivation(P_mem, 1, FALSE)>>,
       es |-> <<<<1, 2>>>>],
      [ns |-> <<Derivation(P_root, 0, TRUE), Derivation(P_slash, 1, FALSE)>>,
       es |-> <<<<1, 2>>>>],
      [ns |-> <<Derivation(P_root, 0, TRUE), Derivation(P_top, 1, FALSE)>>,
       es |-> <<<<1, 2>>>>],
      [ns |-> <<Derivation(P_root, 0, TRUE), Derivation(P_mem, 1, FALSE),
                Derivation(P_b, 1, FALSE)>>,
       es |-> <<<<1, 2>>, <<1, 3>>>>],
      [ns |-> <<Derivation(P_root, 0, TRUE), Derivation(P_b, 1, FALSE),
                Derivation(P_mem, 1, FALSE)>>,
       es |-> <<<<1, 2>>, <<1, 3>>>>] }

NoDfs ==
    /\ stack = <<>> /\ discovered = {} /\ sum = 0 /\ yielded = <<>>

NoRefine ==
    /\ tree = <<>> /\ flen = <<>> /\ inode_to_owner = <<>>
    /\ indices = <<>> /\ pos = 0 /\ wpos = 0 /\ passes = 0 /\ hist = <<>>

InitOpt ==
    /\ \E g \in OptGraphs : nodes = g.ns /\ edges = g.es
    /\ roots = <<>>
    /\ pc = "build"
    /\ result = NoResult
    /\ dir \in DirChoices
    /\ inspected = 0
    /\ NoDfs
    /\ NoRefine

\* the directory was listed: read_dir was called on .links and succeeded
OptListed ==
    /\ pc \in {"opt", "done"}
    /\ LinksDirOf(nodes, edges, roots).tag = "Dir"
    /\ LinksDirOf(nodes, edges, roots).p = LinksDirPath
    /\ result.v /= "Err"

NextOpt == NewFromGraph \/ OptStart \/ OptEntry

SpecOpt == InitOpt /\ [][NextOpt]_vars

-----------------------------------------------------------------------------
(* Claims about store_is_optimised, checked under SpecOpt.                   *)

\* C1: whenever the first root has a child whose path is a filesystem path,
\* .links can be listed, it holds at most 10 entries and each of them is a
\* regular file with hardlink count 1, store_is_optimised returns
\* Ok(Some(false)).
C1_ReturnsNo ==
    (/\ pc = "done"
     /\ OptListed
     /\ Len(dir) <= 10
     /\ \A i \in DOMAIN dir : dir[i] = PlainFile)
    => result.v = "SomeFalse"

\* C8 as stated: whenever an entry among the first <= 10 entries of .links
\* has a hardlink count above 1 (and no I/O error occurs),
\* store_is_optimised returns Ok(Some(true)).
C8_AnyEntryWithLinks ==
    (/\ pc = "done"
     /\ OptListed
     /\ \E i \in 1..Min(10, Len(dir)) : dir[i].nlink > 1)
    => result.v = "SomeTrue"

\* C8 amended: whenever, without I/O error, an entry among the first <= 10
\* entries of .links is a regular file with hardlink count above 1 and every
\* entry listed before it is a regular file, store_is_optimised returns
\* Ok(Some(true)).
C8_FileWithLinks ==
    (/\ pc = "done"
     /\ OptListed
     /\ \E i \in 1..Min(10, Len(dir)) :
           /\ dir[i].is_file /\ dir[i].nlink > 1
           /\ \A j \in 1..(i - 1) : dir[j].is_file)
    => result.v = "SomeTrue"

C8_Witness ==
    /\ pc = "done" /\ OptListed /\ result.v = "SomeTrue"
    /\ inspected = 3 /\ dir[3].is_file /\ dir[3].nlink > 1
    /\ \E j \in 4..Len(dir) : ~dir[j].is_file

\* C9: store_is_optimised never inspects more than 10 entries of .links, and
\* when .links holds 11 or more entries of which the first 10 are regular
\* files with hardlink count 1 it stops after them and returns Ok(None).
C9_BoundedSample ==
    /\ inspected <= 10
    /\ (/\ pc = "done"
        /\ OptListed
        /\ Len(dir) >= 11
        /\ \A i \in 1..10 : dir[i] = PlainFile)
       => (result.v = "None" /\ inspected = 10)

C9_Witness ==
    /\ pc = "done" /\ OptListed /\ Len(dir) >= 11
    /\ \A i \in 1..10 : dir[i] = PlainFile
    /\ result.v = "None" /\ inspected = 10

-----------------------------------------------------------------------------
(* petgraph::visit::Dfs as reachable_size and dfs use it.  Dfs::next is the  *)
(* one of petgraph 0.4, which marks a node discovered when it pushes it, as  *)
(* reachable_size does by hand for the roots.  The top of the stack is the   *)
(* end of the sequence.                                                      *)

\* the loop over the successors that pushes each of them, discovered or not
RECURSIVE VisitSuccs_NoCheck(_, _, _)
VisitSuccs_NoCheck(succs, st, disc) ==
    IF succs = <<>> THEN [stack |-> st, discovered |-> disc]
    ELSE VisitSuccs_NoCheck(Tail(succs), Append(st, Head(succs)),
                            disc \cup {Head(succs)})

\* for succ in graph.neighbors(node) { if discovered.visit(succ) { push } }
RECURSIVE VisitSuccs(_, _, _)
VisitSuccs(succs, st, disc) ==
    IF succs = <<>> THEN [stack |-> st, discovered |-> disc]
    ELSE IF Head(succs) \in disc THEN VisitSuccs(Tail(succs), st, disc)
    ELSE VisitSuccs(Tail(succs), Append(st, Head(succs)),
                    disc \cup {Head(succs)})

\* Dfs::next on a stack that is not empty: the node popped and the new parts
DfsNext(es, st, disc) ==
    LET node == st[Len(st)]
        after == VisitSuccs(neighbors(es, node), SubSeq(st, 1, Len(st) - 1), disc)
    IN [node |-> node, stack |-> after.stack, discovered |-> after.discovered]

\* reachable_size, lines 153-158: Dfs::empty, then every root is marked
\* discovered and pushed
ReachableSizeStart ==
    /\ pc = "ready"
    /\ stack' = roots
    /\ discovered' = Range(roots)
    /\ sum' = 0
    /\ yielded' = <<>>
    /\ pc' = "reachable_size"
    /\ result' = NoResult
    /\ UNCHANGED <<graphVars, optVars, fsVars, refineVars>>

\* reachable_size, lines 159-162: one turn of the while loop, or the return
ReachableSizeStep ==
    /\ pc = "reachable_size"
    /\ IF stack = <<>>
       THEN /\ pc' = "done"
            /\ result' = Ret("reachable_size", sum)
            /\ UNCHANGED dfsVars
       ELSE LET n == DfsNext(edges, stack, discovered)
            IN /\ stack' = n.stack
               /\ discovered' = n.discovered
               /\ sum' = sum + nodes[n.node].size
               /\ yielded' = Append(yielded, n.node)
               /\ UNCHANGED <<pc, result>>
    /\ UNCHANGED <<graphVars, optVars, fsVars, refineVars>>

-----------------------------------------------------------------------------
(* The inputs of reachable_size: graphs of at most MaxNodes nodes and at     *)
(* most MaxEdges edges (self-loops included), any set of nodes flagged as    *)
(* roots; node i has size 3^(i-1), so that a sum tells which nodes it counts *)
(* and how often.                                                            *)

MaxNodes == 4
MaxEdges == 4

AllPairs(n) == [k \in 1..(n * n) |-> <<((k - 1) \div n) + 1, ((k - 1) % n) + 1>>]

ReachNodes(n, R) ==
    [i \in 1..n |-> Derivation(IF i \in R THEN P_root ELSE P_a, 3 ^ (i - 1), i \in R)]

InitReach ==
    /\ \E n \in 1..MaxNodes :
         \E R \in SUBSET (1..n), E \in SUBSET ((1..n) \X (1..n)) :
            /\ Cardinality(E) <= MaxEdges
            /\ nodes = ReachNodes(n, R)
            /\ edges = SelectSeq(AllPairs(n), LAMBDA e : e \in E)
    /\ roots = <<>>
    /\ pc = "build"
    /\ result = NoResult
    /\ dir = <<>>
    /\ inspected = 0
    /\ NoDfs
    /\ NoRefine

NextReach == NewFromGraph \/ ReachableSizeStart \/ ReachableSizeStep

SpecReach == InitReach /\ [][NextReach]_vars

\* the nodes reachable from a root along outgoing edges, roots included
RECURSIVE ReachableFrom(_, _)
ReachableFrom(S, es) ==
    LET T == S \cup {es[i][2] : i \in {j \in DOMAIN es : es[j][1] \in S}}
    IN IF T = S THEN S ELSE ReachableFrom(T, es)

Reachable == ReachableFrom(Range(roots), edges)

RECURSIVE SetSum(_, _)
SetSum(S, f) ==
    IF S = {} THEN 0
    ELSE LET x == CHOOSE y \in S : TRUE IN f[x] + SetSum(S \ {x}, f)

NoDuplicates(s) == \A i, j \in DOMAIN s : s[i] = s[j] => i = j

Diamond == <<<<1, 2>>, <<1, 3>>, <<2, 4>>, <<3, 4>>>>

-----------------------------------------------------------------------------
(* Claims about reachable_size, checked under SpecReach.                     *)

\* C6: reachable_size returns the sum of size over exactly the nodes
\* reachable from a root along outgoing edges, each counted once whatever the
\* number of roots and paths that reach it, unreachable nodes counting for
\* nothing; it does not change the graph.
C6_ReachableSize ==
    /\ [](pc = "done" =>
            /\ result.op = "reachable_size"
            /\ Range(yielded) = Reachable
            /\ NoDuplicates(yielded)
            /\ result.v = SetSum(Reachable, [n \in NodeIndices |-> nodes[n].size]))
    /\ [][(pc \in {"ready", "reachable_size"}) => graphVars' = graphVars]_vars

\* the diamond, its source the only root: D is counted once
C6_Witness ==
    /\ pc = "done" /\ result.op = "reachable_size"
    /\ edges = Diamond /\ roots = <<1>>
    /\ result.v = 1 + 3 + 9 + 27

-----------------------------------------------------------------------------
(* refine_optimized_store (opt.rs).                                          *)
(* A u64 is kept as a representative modulo 2^64: a value v >= 0 stands for  *)
(* itself and v < 0 for 2^64 + v, the result of a subtraction that wrapped.  *)
(* File lengths are small, so a - b underflows exactly when 0 <= a < b.      *)

U64Underflows(a, b) == 0 <= a /\ a < b

\* a subtraction that is left out
U64Sub_Skip(a, b) == a

\* a subtraction that is applied twice
U64Sub_Twice(a, b) == a - b - b

\* a -= b, wrapping
U64Sub(a, b) == a - b

\* Owner
One(n) == [tag |-> "One", n |-> n]
\* a second sighting recorded as one more Owner::One
Several_AsOne(n) == [tag |-> "One", n |-> n]
Several(n) == [tag |-> "Several", n |-> n]
Vacant == [tag |-> "Vacant", n |-> 0]

\* the filesystem: the paths that are symbolic links
Symlinks == {P_root, P_link}

\* the file type of what the link points to, as metadata() gives it
is_symlink_Follow(p) == FALSE

\* line 62: p.symlink_metadata()?.file_type().is_symlink()
is_symlink(p) == p \in Symlinks

\* the shared node named after the first owner n
SharedPath_FirstOwner(ns, n, idx) == SHARED_PREFIX \o name(ns[n])

\* lines 84-91: the path of the new node; n is the first owner, idx the node
\* being walked
SharedPath(ns, n, idx) == SHARED_PREFIX \o name(ns[idx])

\* a shared node of size 0
SharedNode_Empty(path, len) == Derivation(path, 0, FALSE)

\* a shared node flagged as a root
SharedNode_Root(path, len) == Derivation(path, len, TRUE)

\* lines 92-96: the weight of the new node
SharedNode(path, len) == Derivation(path, len, FALSE)

\* an edge that is added only when the graph does not hold it yet
add_edge_Once(es, a, b) ==
    IF \E k \in DOMAIN es : es[k] = <<a, b>> THEN es ELSE Append(es, <<a, b>>)

\* Graph::add_edge: parallel edges are allowed
add_edge(es, a, b) == Append(es, <<a, b>>)

\* a map that outlives the call
NewMap_Kept(old) == IF old = <<>> THEN [i \in 1..MaxIno |-> Vacant] ELSE old

\* line 36: BTreeMap::new()
NewMap(old) == [i \in 1..MaxIno |-> Vacant]

SetSize(ns, n, v) == [ns EXCEPT ![n].size = v]

\* the sighting whose last subtraction is taken from the shared node
Sighting_DebitShared(ns, es, owners, idx, ino, len, checks) ==
    LET v == owners[ino]
        first == v.tag = "One"
        new_node == IF first THEN Len(ns) + 1 ELSE v.n
        ns1 == IF first
               THEN Append(ns, SharedNode(SharedPath(ns, v.n, idx), len))
               ELSE ns
        es1 == IF first THEN add_edge(es, v.n, new_node) ELSE es
        ns2 == IF first THEN SetSize(ns1, v.n, U64Sub(ns1[v.n].size, len))
               ELSE ns1
        owners2 == IF first THEN [owners EXCEPT ![ino] = Several(new_node)]
                   ELSE owners
        es2 == add_edge(es1, idx, new_node)
        ns3 == SetSize(ns2, new_node, U64Sub(ns2[new_node].size, len))
    IN [nodes |-> ns3, edges |-> es2, owners |-> owners2, panicked |-> FALSE]

\* lines 79-106, the arm Entry::Occupied once the metadata is read: the
\* graph and the map after the sighting of inode ino (of length len) under
\* node idx.  checks tells whether the build panics on integer overflow; on
\* a panic the state is the one reached before the subtraction.
Sighting(ns, es, owners, idx, ino, len, checks) ==
    LET v == owners[ino]
        first == v.tag = "One"
        new_node == IF first THEN Len(ns) + 1 ELSE v.n
        ns1 == IF first
               THEN Append(ns, SharedNode(SharedPath(ns, v.n, idx), len))
               ELSE ns
        es1 == IF first THEN add_edge(es, v.n, new_node) ELSE es
        panic1 == first /\ checks /\ U64Underflows(ns1[v.n].size, len)
        ns2 == IF first THEN SetSize(ns1, v.n, U64Sub(ns1[v.n].size, len))
               ELSE ns1
        owners2 == IF first THEN [owners EXCEPT ![ino] = Several(new_node)]
                   ELSE owners
        es2 == add_edge(es1, idx, new_node)
        panic2 == checks /\ U64Underflows(ns2[idx].size, len)
        ns3 == SetSize(ns2, idx, U64Sub(ns2[idx].size, len))
    IN IF panic1
       THEN [nodes |-> ns1, edges |-> es1, owners |-> owners, panicked |-> TRUE]
       ELSE IF panic2
       THEN [nodes |-> ns2, edges |-> es2, owners |-> owners2, panicked |-> TRUE]
       ELSE [nodes |-> ns3, edges |-> es2, owners |-> owners2, panicked |-> FALSE]

RefineRet(v) == Ret("refine_optimized_store", v)

\* lines 36-39: the call; the map is new, the node indices are collected
RefineStart ==
    /\ pc \in {"ready", "done"}
    /\ passes < MaxPasses
    /\ passes' = passes + 1
    /\ hist' = Append(hist, [nodes |-> nodes, edges |-> edges, before |-> result.v])
    /\ inode_to_owner' = NewMap(inode_to_owner)
    /\ indices' = [i \in 1..Len(nodes) |-> i]
    /\ pos' = 1
    /\ wpos' = 0
    /\ pc' = "refine"
    /\ result' = NoResult
    /\ UNCHANGED <<graphVars, optVars, dfsVars, fsVars>>

\* lines 40-67: the next node of the loop is skipped, or its walk starts, or
\* the symlink check fails; after the last node, line 110 returns Ok
RefineNode ==
    /\ pc = "refine"
    /\ \E io_ok \in BOOLEAN :
         IF pos > Len(indices)
         THEN /\ pc' = "done" /\ result' = RefineRet("Ok")
              /\ UNCHANGED <<pos, wpos>>
         ELSE LET weight == nodes[indices[pos]]
              IN IF weight.is_root \/ ~path_as_os_str(weight).some
                 THEN /\ pos' = pos + 1
                      /\ UNCHANGED <<pc, result, wpos>>
                 ELSE IF ~io_ok
                 THEN /\ pc' = "done" /\ result' = RefineRet("Err")
                      /\ UNCHANGED <<pos, wpos>>
                 ELSE IF is_symlink(path_as_os_str(weight).v)
                 THEN /\ pos' = pos + 1
                      /\ UNCHANGED <<pc, result, wpos>>
                 ELSE /\ pc' = "walk" /\ wpos' = 1
                      /\ UNCHANGED <<pos, result>>
    /\ UNCHANGED <<graphVars, optVars, dfsVars, fsVars,
                   inode_to_owner, indices, passes, hist>>

\* lines 68-108: the next entry of the walk of node indices[pos]
RefineEntry ==
    /\ pc = "walk"
    /\ LET idx == indices[pos]
           entries == tree[nodes[idx].path]
       IN \E io \in {"ok", "entry_err", "metadata_err"}, checks \in BOOLEAN :
            IF wpos > Len(entries)
            THEN /\ pc' = "refine" /\ pos' = pos + 1 /\ wpos' = 0
                 /\ UNCHANGED <<graphVars, result, inode_to_owner>>
            ELSE IF io = "entry_err"
            THEN /\ pc' = "done" /\ result' = RefineRet("Err")
                 /\ UNCHANGED <<graphVars, inode_to_owner, pos, wpos>>
            ELSE IF ~entries[wpos].is_file
            THEN /\ wpos' = wpos + 1
                 /\ UNCHANGED <<graphVars, pc, result, inode_to_owner, pos>>
            ELSE IF inode_to_owner[entries[wpos].ino].tag = "Vacant"
            THEN /\ inode_to_owner' =
                       [inode_to_owner EXCEPT ![entries[wpos].ino] = One(idx)]
                 /\ wpos' = wpos + 1
                 /\ UNCHANGED <<graphVars, pc, result, pos>>
            ELSE IF io = "metadata_err"
            THEN /\ pc' = "done" /\ result' = RefineRet("Err")
                 /\ UNCHANGED <<graphVars, inode_to_owner, pos, wpos>>
            ELSE LET ino == entries[wpos].ino
                     s == Sighting(nodes, edges, inode_to_owner, idx, ino,
                                   flen[ino], checks)
                 IN /\ nodes' = s.nodes
                    /\ edges' = s.edges
                    /\ inode_to_owner' = s.owners
                    /\ roots' = roots
                    /\ IF s.panicked
                       THEN /\ pc' = "panicked" /\ result' = RefineRet("Panic")
                            /\ UNCHANGED <<pos, wpos>>
                       ELSE /\ wpos' = wpos + 1
                            /\ UNCHANGED <<pc, result, pos>>
    /\ UNCHANGED <<optVars, dfsVars, fsVars, indices, passes, hist>>

-----------------------------------------------------------------------------
(* The inputs of refine_optimized_store: a graph of a root, two store paths  *)
(* /s/h-a and /s/k-b, a store path that is a symbolic link and a dummy node; *)
(* the files under the store paths range over all lists of at most           *)
(* MaxEntries entries, each a regular file with an inode of 1..MaxIno or an  *)
(* entry that is no regular file; file lengths range over 0..MaxLen.         *)

FileEntry(i) == [is_file |-> TRUE, ino |-> i]
OtherEntry == [is_file |-> FALSE, ino |-> 0]

WalkEntries == {FileEntry(i) : i \in 1..MaxIno} \cup {OtherEntry}

Walks == UNION {[1..k -> WalkEntries] : k \in 0..MaxEntries}

\* the bytes of the regular files a walk yields, each entry counted
DiskUsage(entries, lens) ==
    SeqSum([k \in DOMAIN entries |->
              IF entries[k].is_file THEN lens[entries[k].ino] ELSE 0])

\* edges of a well-formed graph, and edges that give the root a parent
RefineEdges == {<<<<1, 2>>, <<1, 4>>, <<1, 5>>, <<2, 3>>>>,
                <<<<1, 2>>, <<2, 3>>, <<3, 1>>>>}

InitRefineWith(Slack) ==
    /\ \E wa, wb \in Walks :
         tree = (P_a :> wa) @@ (P_b :> wb) @@ (P_link :> <<FileEntry(1)>>)
    /\ flen \in [1..MaxIno -> 0..MaxLen]
    /\ \E da, db \in Slack :
         nodes = << Derivation(P_root, 0, TRUE),
                    Derivation(P_a, DiskUsage(tree[P_a], flen) + da, FALSE),
                    Derivation(P_b, DiskUsage(tree[P_b], flen) + db, FALSE),
                    Derivation(P_link, 1, FALSE),
                    Derivation(P_mem, 0, FALSE) >>
    /\ edges \in RefineEdges
    /\ roots = <<>>
    /\ pc = "build"
    /\ result = NoResult
    /\ dir = <<>>
    /\ inspected = 0
    /\ NoDfs
    /\ inode_to_owner = <<>> /\ indices = <<>> /\ pos = 0 /\ wpos = 0
    /\ passes = 0 /\ hist = <<>>

InitRefine == InitRefineWith({0})

NextRefine == NewFromGraph \/ RefineStart \/ RefineNode \/ RefineEntry

SpecRefine == InitRefine /\ [][NextRefine]_vars

-----------------------------------------------------------------------------
(* What a pass has seen, read from the filesystem and the position of the    *)
(* pass, for the first pass (where indices[k] = k).                          *)

\* the graph the first pass started from
Nodes0 == hist[1].nodes
Edges0 == hist[1].edges

\* the nodes the pass walks: no root, a filesystem path, no symbolic link
IsWalked(ns, n) ==
    /\ ~ns[n].is_root
    /\ path_as_os_str(ns[n]).some
    /\ ~is_symlink(ns[n].path)

OccIn(entries, i) == Cardinality({k \in DOMAIN entries : entries[k] = FileEntry(i)})

\* occurrences of inode i under node n, and over all walked nodes
Occ(n, i) == IF IsWalked(Nodes0, n) THEN OccIn(tree[Nodes0[n].path], i) ELSE 0
Sightings(i) == SeqSum([n \in DOMAIN Nodes0 |-> Occ(n, i)])
SharedInodes == {i \in 1..MaxIno : Sightings(i) >= 2}

\* the entries of node n the first pass has processed so far
Processed(n) ==
    IF ~IsWalked(Nodes0, n) THEN <<>>
    ELSE IF n < pos THEN tree[Nodes0[n].path]
    ELSE IF n = pos /\ wpos >= 1
    THEN SubSeq(tree[Nodes0[n].path], 1, Min(wpos - 1, Len(tree[Nodes0[n].path])))
    ELSE <<>>

POcc(n, i) == OccIn(Processed(n), i)
PSightings(i) == SeqSum([n \in DOMAIN Nodes0 |-> POcc(n, i)])
PShared == {i \in 1..MaxIno : PSightings(i) >= 2}

EdgeCount(es, a, b) == Cardinality({k \in DOMAIN es : es[k] = <<a, b>>})

\* the bytes of the inodes of S counted once per entry of `entries`
BytesOf(entries, S) ==
    SeqSum([k \in DOMAIN entries |->
              IF entries[k].is_file /\ entries[k].ino \in S
              THEN flen[entries[k].ino] ELSE 0])

\* the graph and the map hold exactly what the sightings processed so far
\* make of the graph the pass started from
PrefixApplied ==
    /\ Len(nodes) = Len(Nodes0) + Cardinality(PShared)
    /\ Len(edges) = Len(Edges0) + SeqSum([i \in 1..MaxIno |->
                         IF i \in PShared THEN PSightings(i) ELSE 0])
    /\ SubSeq(edges, 1, Len(Edges0)) = Edges0
    /\ \A n \in DOMAIN Nodes0 :
          /\ nodes[n].path = Nodes0[n].path
          /\ nodes[n].is_root = Nodes0[n].is_root
          /\ nodes[n].size = Nodes0[n].size - BytesOf(Processed(n), PShared)
    /\ \A i \in 1..MaxIno :
          LET o == inode_to_owner[i]
          IN CASE PSightings(i) = 0 -> o = Vacant
               [] PSightings(i) = 1 -> o.tag = "One" /\ POcc(o.n, i) = 1
               [] OTHER ->
                    /\ o.tag = "Several"
                    /\ o.n \in (Len(Nodes0) + 1)..Len(nodes)
                    /\ nodes[o.n].size = flen[i]
                    /\ ~nodes[o.n].is_root
                    /\ \A n \in DOMAIN Nodes0 : EdgeCount(edges, n, o.n) = POcc(n, i)

PassDone(k) == pc = "done" /\ passes = k /\ result = RefineRet("Ok")

PassFailed(k) == pc = "done" /\ passes = k /\ result = RefineRet("Err")

\* the entry the walk is at
CurrentEntry == tree[nodes[indices[pos]].path][wpos]

-----------------------------------------------------------------------------
(* Claims about refine_optimized_store, checked under SpecRefine.            *)

\* a step of the pass that adds a node: a second sighting
SecondSighting == pc = "walk" /\ Len(nodes') = Len(nodes) + 1

\* C2 as stated: on the second sighting of an inode, whose map entry is
\* Owner::One(original_node), the new node has path "shared:" followed by
\* name(original_node), the name of the first owner, size the byte length of
\* the file and is_root = false.
C2_NamedAfterFirstOwner ==
    [][SecondSighting =>
         LET o == inode_to_owner[CurrentEntry.ino]
         IN /\ o.tag = "One"
            /\ nodes'[Len(nodes')] =
                 Derivation(SHARED_PREFIX \o name(nodes[o.n]),
                            flen[CurrentEntry.ino], FALSE)]_vars

\* C2 amended: on the second sighting of an inode, whose map entry is
\* Owner::One(original_node), the new node has path "shared:" followed by
\* name(current_node), the name of the node being walked, size the byte
\* length of the file and is_root = false.
C2_NamedAfterCurrentNode ==
    [][SecondSighting =>
         LET o == inode_to_owner[CurrentEntry.ino]
         IN /\ o.tag = "One"
            /\ nodes'[Len(nodes')] =
                 Derivation(SHARED_PREFIX \o name(nodes[indices[pos]]),
                            flen[CurrentEntry.ino], FALSE)]_vars

\* inode 1 was first seen under /s/h-a (node 2) and again under /s/k-b: the
\* shared node is named shared:b
C2_Witness ==
    /\ passes = 1 /\ Len(nodes) = 6
    /\ inode_to_owner[1] = Several(6)
    /\ Occ(2, 1) = 1 /\ Occ(3, 1) >= 1
    /\ flen[1] = 2
    /\ nodes[6] = Derivation(SHARED_PREFIX \o <<"b">>, 2, FALSE)

\* C3 as stated: after a complete pass, for every walked node N and every
\* shared node S of an inode that occurs under N, however often it occurs
\* there, the graph holds exactly one edge N -> S and N.size is reduced by
\* the length of that file exactly once.
C3_OneEdgeOneSubtraction ==
    PassDone(1) =>
      \A n \in DOMAIN Nodes0 :
        LET under == {i \in SharedInodes : Occ(n, i) >= 1}
        IN /\ \A i \in under : EdgeCount(edges, n, inode_to_owner[i].n) = 1
           /\ nodes[n].size = Nodes0[n].size - SetSum(under, flen)

\* C3 amended: after a complete pass, for every walked node N and every
\* shared node S of an inode that occurs under N, the graph holds one edge
\* N -> S for each occurrence of the inode under N and N.size is reduced by
\* the length of that file once for each occurrence: exactly one edge and one
\* subtraction when the inode occurs once under N.
C3_OneEdgePerOccurrence ==
    PassDone(1) =>
      \A n \in DOMAIN Nodes0 :
        LET under == {i \in SharedInodes : Occ(n, i) >= 1}
        IN /\ \A i \in under :
                /\ inode_to_owner[i].tag = "Several"
                /\ EdgeCount(edges, n, inode_to_owner[i].n) = Occ(n, i)
           /\ nodes[n].size =
                Nodes0[n].size
                  - SetSum(under, [i \in 1..MaxIno |-> Occ(n, i) * flen[i]])

\* inode 1 occurs twice under node 2 and once under node 3
C3_Witness ==
    /\ PassDone(1)
    /\ Occ(2, 1) = 2 /\ Occ(3, 1) = 1 /\ flen[1] = 2
    /\ EdgeCount(edges, 2, 6) = 2 /\ EdgeCount(edges, 3, 6) = 1

\* every walked node starts with the bytes of the regular files under it
SizesAreDiskUsage ==
    \A n \in DOMAIN Nodes0 :
       IsWalked(Nodes0, n) => Nodes0[n].size = DiskUsage(tree[Nodes0[n].path], flen)

WalkedAndShared ==
    {n \in DOMAIN Nodes0 : IsWalked(Nodes0, n)} \cup (Len(Nodes0) + 1)..Len(nodes)

\* C4: after a complete pass over a store where every walked node starts
\* with the bytes of the regular files under it, the sizes of the walked
\* nodes and of the shared nodes created add up to the bytes of the distinct
\* inodes seen, each counted once: an inode seen k times lowers the total by
\* (k - 1) times its length.
C4_UniqueBytes ==
    (PassDone(1) /\ SizesAreDiskUsage) =>
      LET total == SetSum(WalkedAndShared, [n \in DOMAIN nodes |-> nodes[n].size])
          before == SetSum({n \in DOMAIN Nodes0 : IsWalked(Nodes0, n)},
                           [n \in DOMAIN Nodes0 |-> Nodes0[n].size])
      IN /\ total = SetSum({i \in 1..MaxIno : Sightings(i) >= 1}, flen)
         /\ total = before - SetSum({i \in 1..MaxIno : Sightings(i) >= 1},
                                    [i \in 1..MaxIno |-> (Sightings(i) - 1) * flen[i]])

\* inode 1 seen three times, inode 2 once
C4_Witness ==
    /\ PassDone(1) /\ SizesAreDiskUsage
    /\ Sightings(1) = 3 /\ Sightings(2) = 1
    /\ flen[1] = 2 /\ flen[2] = 1

\* no node flagged as a root has an incoming edge
RootsAreSources ==
    \A n \in DOMAIN nodes : nodes[n].is_root => n \in externals_incoming(nodes, edges)

\* C5: once new_from_graph has built the DepInfos of a graph where no
\* is_root node has an incoming edge, roots_attr_coherent holds, and every
\* step of every refinement pass keeps it, in the middle of a pass and in
\* passes that an I/O error ends.
C5_RootsCoherent ==
    /\ []((pc = "ready" /\ RootsAreSources) => roots_attr_coherent)
    /\ [][(pc /= "build" /\ roots_attr_coherent) => roots_attr_coherent']_vars

\* in the second pass, after a first pass that failed and left a shared node
C5_Witness ==
    /\ passes = 2 /\ hist[2].before = "Err"
    /\ Len(hist[2].nodes) > Len(Nodes0)
    /\ Len(nodes) > Len(hist[2].nodes)
    /\ roots = <<1>>
    /\ roots_attr_coherent

\* C7: a filesystem error during refine_optimized_store (symlink check of a
\* node, entry of the walk, metadata of a file seen again) is returned at
\* once: the step that fails changes neither the graph nor the position, no
\* later file or node is processed, and the graph holds exactly what the
\* sightings processed before the failing one made of it.
C7_ErrorKeepsMutations ==
    /\ [][result'.v = "Err" /\ result.v /= "Err" =>
            /\ pc \in {"refine", "walk"} /\ pc' = "done"
            /\ graphVars' = graphVars
            /\ inode_to_owner' = inode_to_owner
            /\ pos' = pos /\ wpos' = wpos]_vars
    /\ [][PassFailed(passes) /\ passes' = passes => graphVars' = graphVars]_vars
    /\ [](PassFailed(1) => PrefixApplied)

\* the metadata of the third sighting of inode 1 cannot be read: the shared
\* node of the second sighting stays
C7_Witness ==
    /\ PassFailed(1)
    /\ pos = 3 /\ wpos = 2
    /\ CurrentEntry = FileEntry(1)
    /\ inode_to_owner[1] = Several(6)
    /\ flen[1] = 1
    /\ nodes[2].size = Nodes0[2].size - 1
    /\ nodes[3].size = Nodes0[3].size - 1

\* C10: a second complete pass over the same filesystem, on the graph a
\* first complete pass left, subtracts the length of each shared file from
\* each owning node once more for each occurrence (modulo 2^64) and adds one
\* more shared node for each shared inode, so the graph differs from the
\* once-refined one whenever an inode is shared.
C10_NotIdempotent ==
    (PassDone(2) /\ hist[2].before = "Ok") =>
      /\ Len(nodes) = Len(hist[2].nodes) + Cardinality(SharedInodes)
      /\ Len(hist[2].nodes) = Len(Nodes0) + Cardinality(SharedInodes)
      /\ \A n \in DOMAIN Nodes0 :
            LET bytes == SetSum(SharedInodes,
                                [i \in 1..MaxIno |-> Occ(n, i) * flen[i]])
            IN /\ hist[2].nodes[n].size = Nodes0[n].size - bytes
               /\ nodes[n].size = hist[2].nodes[n].size - bytes
      /\ \A i \in SharedInodes :
            /\ inode_to_owner[i].tag = "Several"
            /\ inode_to_owner[i].n > Len(hist[2].nodes)
            /\ nodes[inode_to_owner[i].n].size = flen[i]
      /\ SharedInodes /= {} =>
            (nodes /= hist[2].nodes /\ edges /= hist[2].edges)

\* two complete passes, inode 1 shared and of length 2
C10_Witness ==
    /\ PassDone(2) /\ hist[2].before = "Ok"
    /\ 1 \in SharedInodes /\ flen[1] = 2
    /\ Occ(2, 1) = 1 /\ Occ(3, 1) = 1
    /\ nodes[2].size = Nodes0[2].size - 4

\* a node whose path begins with "shared:"
IsSharedNode(ns, s) ==
    /\ Len(ns[s].path) >= Len(SHARED_PREFIX)
    /\ SubSeq(ns[s].path, 1, Len(SHARED_PREFIX)) = SHARED_PREFIX

\* C11: a shared node gets the byte length of its file as size when the
\* second sighting creates it, and no later step changes that size, neither a
\* later sighting of the same pass nor any step of a later pass: a shared
\* node is never walked and never recorded as the Owner::One of an inode.
C11_SharedSizeFrozen ==
    /\ [][\A s \in DOMAIN nodes' :
            IsSharedNode(nodes', s) =>
              IF s \in DOMAIN nodes
              THEN nodes'[s] = nodes[s]
              ELSE /\ pc = "walk"
                   /\ nodes'[s].size = flen[CurrentEntry.ino]]_vars
    /\ [](pc = "walk" => ~IsSharedNode(nodes, indices[pos]))
    /\ [](\A i \in DOMAIN inode_to_owner :
            inode_to_owner[i].tag = "One" => ~IsSharedNode(nodes, inode_to_owner[i].n))

\* the second pass has gone past the shared node of the first pass and has
\* seen its inode twice again: node 6 still has the length of the file
C11_Witness ==
    /\ passes = 2 /\ pc = "refine" /\ pos > 6
    /\ Len(hist[2].nodes) = 6 /\ Len(nodes) = 7
    /\ IsSharedNode(nodes, 6)
    /\ flen[1] = 2 /\ nodes[6].size = 2
    /\ nodes[2].size = Nodes0[2].size - 4

\* a node the pass must leave alone: a root, a path without a leading '/',
\* or a path that is a symbolic link
Skipped(ns, n) ==
    \/ ns[n].is_root
    \/ ns[n].path = <<>>
    \/ ns[n].path[1] /= "/"
    \/ ns[n].path \in Symlinks

OutEdges(es, n) == {k \in DOMAIN es : es[k][1] = n}

\* C14: a node that is a root, or whose path does not begin with '/', or
\* whose path is a symbolic link is never walked, never has its size changed
\* and never gets an outgoing edge; an inode whose files are all under such
\* nodes never enters the inode-to-owner map.
C14_SkippedUntouched ==
    /\ [][\A n \in DOMAIN nodes :
            Skipped(nodes, n) =>
              /\ nodes'[n] = nodes[n]
              /\ OutEdges(edges', n) = OutEdges(edges, n)]_vars
    /\ [](pc = "walk" => ~Skipped(nodes, indices[pos]))
    /\ [](\A i \in DOMAIN inode_to_owner :
            LET under == {n \in DOMAIN nodes :
                            /\ nodes[n].path \in DOMAIN tree
                            /\ FileEntry(i) \in Range(tree[nodes[n].path])}
            IN /\ (\A n \in under : Skipped(nodes, n)) => inode_to_owner[i] = Vacant
               /\ inode_to_owner[i].tag = "One" =>
                    ~Skipped(nodes, inode_to_owner[i].n))

\* a complete pass: inode 1 is only under the symbolic link /s/l and is not
\* in the map, inode 2 is shared by the two walked nodes, and the root, the
\* link and the dummy node are as they were
C14_Witness ==
    /\ PassDone(1)
    /\ FileEntry(1) \in Range(tree[P_link])
    /\ FileEntry(1) \notin Range(tree[P_a]) \cup Range(tree[P_b])
    /\ inode_to_owner[1] = Vacant
    /\ inode_to_owner[2].tag = "Several" /\ flen[2] = 1
    /\ nodes[1] = Nodes0[1] /\ nodes[4] = Nodes0[4] /\ nodes[5] = Nodes0[5]
    /\ OutEdges(edges, 4) = {} /\ OutEdges(edges, 5) = {}

\* absent, Owner::One, Owner::Several
OwnerRank(o) == CASE o.tag = "Vacant" -> 0 [] o.tag = "One" -> 1 [] OTHER -> 2

InDegree(es, s) == Cardinality({k \in DOMAIN es : es[k][2] = s})

\* the inodes a step moves from Owner::One to Owner::Several
Promoted ==
    {i \in DOMAIN inode_to_owner :
       inode_to_owner[i].tag = "One" /\ inode_to_owner'[i].tag = "Several"}

\* a step that completes the sighting of a file whose inode is Several
LaterSighting ==
    /\ pc = "walk" /\ passes' = passes
    /\ wpos \in DOMAIN tree[nodes[indices[pos]].path]
    /\ CurrentEntry.is_file
    /\ inode_to_owner[CurrentEntry.ino].tag = "Several"
    /\ wpos' = wpos + 1

\* C15: within a pass the owner state of an inode only moves from absent to
\* One to Several, one stage at a time, and a Several never changes; a node
\* is added exactly by the step that moves an inode from One to Several, its
\* second sighting; a sighting of a Several inode adds one edge from the
\* current node to the shared node and subtracts the length once, and adds
\* no node; a complete pass adds as many nodes as there are inodes sighted at
\* least twice, and the shared node of an inode sighted k times has exactly k
\* incoming edges.  (A step that panics on an overflow ends the program in
\* the middle of a sighting and is left out.)
C15_OwnerLifecycle ==
    /\ [][(passes' = passes /\ pc' /= "panicked") =>
            /\ \A i \in DOMAIN inode_to_owner :
                 /\ OwnerRank(inode_to_owner'[i]) \in
                      {OwnerRank(inode_to_owner[i]), OwnerRank(inode_to_owner[i]) + 1}
                 /\ inode_to_owner[i].tag = "Several" =>
                      inode_to_owner'[i] = inode_to_owner[i]
            /\ Len(nodes') = Len(nodes) + Cardinality(Promoted)
            /\ \A i \in Promoted : inode_to_owner'[i].n = Len(nodes')]_vars
    /\ [][LaterSighting =>
            LET idx == indices[pos]
                ino == CurrentEntry.ino
                shared == inode_to_owner[ino].n
            IN /\ edges' = Append(edges, <<idx, shared>>)
               /\ nodes' = [nodes EXCEPT ![idx].size = nodes[idx].size - flen[ino]]
               /\ inode_to_owner' = inode_to_owner]_vars
    /\ [](PassDone(passes) =>
            /\ Len(nodes) = Len(hist[passes].nodes) + Cardinality(SharedInodes)
            /\ \A i \in SharedInodes :
                 /\ inode_to_owner[i].tag = "Several"
                 /\ inode_to_owner[i].n > Len(hist[passes].nodes)
                 /\ InDegree(edges, inode_to_owner[i].n) = Sightings(i)
            /\ \A i, j \in SharedInodes :
                 inode_to_owner[i].n = inode_to_owner[j].n => i = j)

\* a complete pass: inode 1 was sighted three times, inode 2 once; one node
\* was added and it has three incoming edges
C15_Witness ==
    /\ PassDone(1)
    /\ Sightings(1) = 3 /\ Sightings(2) = 1
    /\ Len(nodes) = Len(Nodes0) + 1
    /\ inode_to_owner[1].tag = "Several" /\ inode_to_owner[2].tag = "One"
    /\ InDegree(edges, 6) = 3

\* a step that completes the sighting of a file whose inode is not in the map
FirstSighting ==
    /\ pc = "walk"
    /\ wpos \in DOMAIN tree[nodes[indices[pos]].path]
    /\ CurrentEntry.is_file
    /\ inode_to_owner[CurrentEntry.ino].tag = "Vacant"
    /\ wpos' = wpos + 1

\* C16: the first sighting of an inode records Owner::One(current node) in
\* the map and changes nothing in the graph; a complete pass in which every
\* inode is sighted at most once leaves the nodes (path, size, is_root of
\* each), the edges and the roots as they were when the pass started.
C16_FirstSightingFrame ==
    /\ [][FirstSighting =>
            /\ graphVars' = graphVars
            /\ inode_to_owner' =
                 [inode_to_owner EXCEPT ![CurrentEntry.ino] =
                    [tag |-> "One", n |-> indices[pos]]]]_vars
    /\ [][(pc \in {"refine", "walk"}) => roots' = roots]_vars
    /\ []((PassDone(passes) /\ SharedInodes = {}) =>
            /\ nodes = hist[passes].nodes
            /\ edges = hist[passes].edges
            /\ roots = RootIndices(hist[passes].nodes))

\* a complete pass: inodes 1 and 2 were each sighted once, neither file is
\* empty, and the graph is the one the pass started from
C16_Witness ==
    /\ PassDone(1)
    /\ Sightings(1) = 1 /\ Sightings(2) = 1
    /\ flen[1] = 2 /\ flen[2] = 1
    /\ inode_to_owner[1].tag = "One" /\ inode_to_owner[2].tag = "One"
    /\ nodes = Nodes0 /\ edges = Edges0 /\ roots = <<1>>

\* C18: whenever refine_optimized_store has returned, with Ok or with an
\* error, on a graph that had no shared node before the first call, every
\* shared node is no root, has no outgoing edge and has at least two incoming
\* edges, each from a walked store path; the step that returns leaves the
\* graph as it was, so no sighting is left half done.
C18_SharedNodesWellFormed ==
    /\ []((pc = "done" /\ result.op = "refine_optimized_store") =>
            \A s \in DOMAIN nodes :
               IsSharedNode(nodes, s) =>
                 /\ ~nodes[s].is_root
                 /\ s \notin Range(roots)
                 /\ OutEdges(edges, s) = {}
                 /\ InDegree(edges, s) >= 2
                 /\ \A k \in DOMAIN edges :
                      edges[k][2] = s => ~Skipped(nodes, edges[k][1]))
    /\ [][(pc \in {"refine", "walk"} /\ pc' = "done") =>
            graphVars' = graphVars]_vars

\* the pass failed on the metadata of a file seen again, after the second
\* sighting of inode 1 had made node 6
C18_Witness ==
    /\ PassFailed(1)
    /\ \A s \in DOMAIN Nodes0 : ~IsSharedNode(Nodes0, s)
    /\ Len(nodes) = 6 /\ IsSharedNode(nodes, 6)
    /\ pc = "done" /\ wpos \in DOMAIN tree[nodes[indices[pos]].path]
    /\ CurrentEntry.is_file
    /\ inode_to_owner[CurrentEntry.ino].tag /= "Vacant"
    /\ InDegree(edges, 6) = 2
    /\ EdgeCount(edges, 2, 6) = 1 /\ EdgeCount(edges, 3, 6) = 1

-----------------------------------------------------------------------------
(* DepInfos::read_from_store (depgraph.rs).  bindings::populateGraph is the  *)
(* collaborator: while it runs it calls register_node and register_edge any  *)
(* number of times, then it returns a status, an i32 of its choice.          *)

MaxReg == 3         \* nodes and edges the collaborator registers
MaxStatus == 2      \* statuses range over -MaxStatus..MaxStatus

ResultOk == [tag |-> "Ok", code |-> 0]
ResultErr(res) == [tag |-> "Err", code |-> res]

\* a status that is an error only when negative
ReadResult_NonNegative(res) == IF res >= 0 THEN ResultOk ELSE ResultErr(res)

\* lines 132-136: if res == 0 { Ok(..) } else { Err(res) }
ReadResult(res) == IF res = 0 THEN ResultOk ELSE ResultErr(res)

\* the derivations the collaborator registers
StoreDerivations == {Derivation(P_root, 0, TRUE), Derivation(P_a, 1, FALSE)}

\* register_node, lines 109-114
register_node ==
    /\ pc = "populate"
    /\ Len(nodes) < MaxReg
    /\ \E drv \in StoreDerivations : nodes' = Append(nodes, drv)
    /\ UNCHANGED <<edges, roots, pc, result, optVars, dfsVars, fsVars, refineVars>>

\* register_edge, lines 118-121: Graph::add_edge panics when the graph does
\* not hold one of the two nodes
register_edge ==
    /\ pc = "populate"
    /\ Len(edges) < MaxReg
    /\ \E from, to \in 1..MaxReg :
         IF from \in DOMAIN nodes /\ to \in DOMAIN nodes
         THEN /\ edges' = add_edge(edges, from, to)
              /\ UNCHANGED <<pc, result>>
         ELSE /\ pc' = "panicked"
              /\ result' = Ret("register_edge", "Panic")
              /\ UNCHANGED edges
    /\ UNCHANGED <<nodes, roots, optVars, dfsVars, fsVars, refineVars>>

\* line 130: populateGraph returns its status
PopulateGraphReturn ==
    /\ pc = "populate"
    /\ \E res \in (-MaxStatus)..MaxStatus :
         result' = Ret("populateGraph", res)
    /\ pc' = "populated"
    /\ UNCHANGED <<graphVars, optVars, dfsVars, fsVars, refineVars>>

\* lines 132-137: on status 0 new_from_graph builds the DepInfos (and its
\* debug_assert may panic); on any other status the graph is dropped
ReadFromStoreReturn ==
    /\ pc = "populated"
    /\ LET r == ReadResult(result.v)
       IN IF r.tag = "Ok"
          THEN /\ roots' = RootIndices(nodes)
               /\ \E debug_assertions \in BOOLEAN :
                    IF debug_assertions
                       /\ ~roots_attr_coherent_of(nodes, edges, RootIndices(nodes))
                    THEN /\ pc' = "panicked"
                         /\ result' = Ret("read_from_store", "Panic")
                    ELSE /\ pc' = "ready"
                         /\ result' = Ret("read_from_store", r)
               /\ UNCHANGED <<nodes, edges>>
          ELSE /\ pc' = "done"
               /\ result' = Ret("read_from_store", r)
               /\ nodes' = <<>> /\ edges' = <<>>
               /\ UNCHANGED roots
    /\ UNCHANGED <<optVars, dfsVars, fsVars, refineVars>>

\* line 128: DepGraph::new(), the collaborator is about to run
InitStore ==
    /\ nodes = <<>> /\ edges = <<>> /\ roots = <<>>
    /\ pc = "populate"
    /\ result = NoResult
    /\ dir = <<>>
    /\ inspected = 0
    /\ NoDfs
    /\ NoRefine

NextStore ==
    register_node \/ register_edge \/ PopulateGraphReturn \/ ReadFromStoreReturn

SpecStore == InitStore /\ [][NextStore]_vars

-----------------------------------------------------------------------------
(* Claims about read_from_store, checked under SpecStore.                    *)

\* C12: when the collaborator returns a status other than 0, read_from_store
\* returns Err(status) with that very status and no DepInfos, whatever nodes
\* and edges were registered; it returns Ok(DepInfos), the registered graph
\* with its roots, only when the status is 0.
C12_StatusVerbatim ==
    /\ [][pc = "populated" =>
            /\ result.v /= 0 =>
                 /\ pc' = "done"
                 /\ result' = Ret("read_from_store", ResultErr(result.v))
                 /\ nodes' = <<>> /\ edges' = <<>> /\ roots' = <<>>
            /\ pc' = "ready" =>
                 /\ result.v = 0
                 /\ result' = Ret("read_from_store", ResultOk)
                 /\ nodes' = nodes /\ edges' = edges
                 /\ roots' = RootIndices(nodes)]_vars
    /\ [](pc = "ready" => result = Ret("read_from_store", ResultOk))
    /\ [](pc = "done" => result.v.tag = "Err" /\ result.v.code /= 0)

\* the collaborator returned -2: the caller gets Err(-2) and no graph
C12_Witness ==
    /\ pc = "done"
    /\ result = Ret("read_from_store", ResultErr(-2))
    /\ nodes = <<>> /\ roots = <<>>

-----------------------------------------------------------------------------
(* Derivation::name as a call of its own: the derivation ranges over every   *)
(* path of at most MaxPath bytes among '/', '-' and 'a', and over the path   *)
(* /nix/store/abcdef-foo-1.0, flagged as a root or not.                      *)

MaxPath == 4        \* bytes of an enumerated path

NameBytes == {"/", "-", "a"}

P_example == <<"/", "n", "i", "x", "/", "s", "t", "o", "r", "e", "/",
               "a", "b", "c", "d", "e", "f", "-", "f", "o", "o", "-",
               "1", ".", "0">>

NamePaths == UNION {[1..k -> NameBytes] : k \in 0..MaxPath} \cup {P_example}

InitName ==
    /\ \E p \in NamePaths, r \in BOOLEAN : nodes = <<Derivation(p, 0, r)>>
    /\ edges = <<>> /\ roots = <<>>
    /\ pc = "ready"
    /\ result = NoResult
    /\ dir = <<>>
    /\ inspected = 0
    /\ NoDfs
    /\ NoRefine

\* a call of name() on the derivation
NameCall ==
    /\ pc = "ready"
    /\ result' = Ret("name", name(nodes[1]))
    /\ pc' = "done"
    /\ UNCHANGED <<graphVars, optVars, dfsVars, fsVars, refineVars>>

NextName == NameCall

SpecName == InitName /\ [][NextName]_vars

\* p is pre, then the byte c, then post
SplitAt(p, pre, c, post) == p = pre \o <<c>> \o post

Prefixes(p) == {SubSeq(p, 1, k) : k \in 0..Len(p)}
Suffixes(p) == {SubSeq(p, k, Len(p)) : k \in 1..(Len(p) + 1)}

-----------------------------------------------------------------------------
(* Claims about Derivation::name, checked under SpecName.                    *)

\* C13: name returns the whole path of a root; of another derivation it
\* returns the whole path when the path holds no '/', otherwise the suffix
\* that follows the last '/', cut to what follows the first '-' of that
\* suffix when it holds one and whole when it holds none.
C13_Name ==
    (pc = "done" /\ result.op = "name") =>
      LET p == nodes[1].path
          r == result.v
      IN /\ nodes[1].is_root => r = p
         /\ (~nodes[1].is_root /\ "/" \notin Range(p)) => r = p
         /\ (~nodes[1].is_root /\ "/" \in Range(p)) =>
              \E pre \in Prefixes(p), suffix \in Suffixes(p) :
                 /\ SplitAt(p, pre, "/", suffix)
                 /\ "/" \notin Range(suffix)
                 /\ IF "-" \in Range(suffix)
                    THEN \E hash \in Prefixes(suffix) :
                            /\ SplitAt(suffix, hash, "-", r)
                            /\ "-" \notin Range(hash)
                    ELSE r = suffix

\* /nix/store/abcdef-foo-1.0 is named foo-1.0
C13_Witness ==
    /\ pc = "done" /\ result.op = "name"
    /\ nodes[1] = Derivation(P_example, 0, FALSE)
    /\ result.v = <<"f", "o", "o", "-", "1", ".", "0">>

-----------------------------------------------------------------------------
(* A single pass of refine_optimized_store over a graph whose store paths    *)
(* have a size that is the bytes of the files under them, or MaxSlack less,  *)
(* or MaxSlack more.                                                         *)

MaxSlack == 1       \* distance of a size from the bytes under the node

InitRefineSlack ==
    /\ InitRefineWith((-MaxSlack)..MaxSlack)
    /\ \A n \in DOMAIN nodes : nodes[n].size >= 0

\* the first call of refine_optimized_store
RefineFirst == RefineStart /\ passes = 0

NextRefineOnce == NewFromGraph \/ RefineFirst \/ RefineNode \/ RefineEntry

SpecRefineOnce == InitRefineSlack /\ [][NextRefineOnce]_vars

\* every walked node starts with at least the bytes of the regular files
\* under it
SizesCoverDiskUsage ==
    \A n \in DOMAIN Nodes0 :
       IsWalked(Nodes0, n) => Nodes0[n].size >= DiskUsage(tree[Nodes0[n].path], flen)

-----------------------------------------------------------------------------
(* Claims about a single pass, checked under SpecRefineOnce.                 *)

\* C17: during a single pass the size of a node is lowered by at most the
\* lengths of the regular-file entries under it that the pass has processed,
\* each entry counting at most once; so when every walked node starts with at
\* least the bytes of the regular files under it, no subtraction underflows:
\* the pass never panics on overflow and every size stays at or above 0.
C17_NoUnderflow ==
    (passes = 1 /\ SizesCoverDiskUsage) =>
      /\ pc /= "panicked"
      /\ \A n \in DOMAIN nodes : nodes[n].size >= 0
      /\ \A n \in DOMAIN Nodes0 :
            /\ nodes[n].size <= Nodes0[n].size
            /\ nodes[n].size >= Nodes0[n].size - DiskUsage(Processed(n), flen)

\* a complete pass: /s/h-a holds inode 1 (2 bytes) twice and started with 4
\* bytes, /s/k-b holds it once and started with one byte more than its file
C17_Witness ==
    /\ PassDone(1) /\ SizesCoverDiskUsage
    /\ Occ(2, 1) = 2 /\ Occ(3, 1) = 1 /\ flen[1] = 2
    /\ Nodes0[2].size = 4 /\ nodes[2].size = 0
    /\ Nodes0[3].size = 3 /\ nodes[3].size = 1

-----------------------------------------------------------------------------
(* DepInfos::dfs (depgraph.rs) and the traversal its caller runs with it, on *)
(* the graphs of InitReach.                                                  *)

\* a traversal with an empty stack, as Dfs::empty gives
DfsOf_Empty(rs) == [stack |-> <<>>, discovered |-> {}]

\* line 167: Dfs::from_parts(self.roots.clone(), self.graph.visit_map()),
\* the roots on the stack and nothing discovered
DfsOf(rs) == [stack |-> rs, discovered |-> {}]

\* dfs(), lines 166-168
DfsCall ==
    /\ pc = "ready"
    /\ stack' = DfsOf(roots).stack
    /\ discovered' = DfsOf(roots).discovered
    /\ sum' = 0
    /\ yielded' = <<>>
    /\ pc' = "dfs"
    /\ result' = NoResult
    /\ UNCHANGED <<graphVars, optVars, fsVars, refineVars>>

\* one call of Dfs::next by the caller: the next node, or None at the end
DfsStep ==
    /\ pc = "dfs"
    /\ IF stack = <<>>
       THEN /\ pc' = "done"
            /\ result' = Ret("dfs", "None")
            /\ UNCHANGED dfsVars
       ELSE LET n == DfsNext(edges, stack, discovered)
            IN /\ stack' = n.stack
               /\ discovered' = n.discovered
               /\ yielded' = Append(yielded, n.node)
               /\ UNCHANGED <<pc, result, sum>>
    /\ UNCHANGED <<graphVars, optVars, fsVars, refineVars>>

NextDfs == NewFromGraph \/ DfsCall \/ DfsStep

SpecDfs == InitReach /\ [][NextDfs]_vars

\* the loop of reachable_size, lines 159-161, from a stack and a discovered
\* set: the nodes whose size it adds, in order
RECURSIVE SummedFrom(_, _, _)
SummedFrom(es, st, disc) ==
    IF st = <<>> THEN <<>>
    ELSE LET n == DfsNext(es, st, disc)
         IN <<n.node>> \o SummedFrom(es, n.stack, n.discovered)

\* reachable_size, lines 153-161: every root marked discovered and pushed
SummedByReachableSize == SummedFrom(edges, roots, Range(roots))

-----------------------------------------------------------------------------
(* Claims about dfs, checked under SpecDfs.                                  *)

\* C19: on a DepInfos where roots_attr_coherent holds, the traversal that
\* dfs() returns, run until Dfs::next gives None, yields exactly the nodes
\* whose sizes reachable_size adds up (the nodes reachable from a root), each
\* once, although it starts with nothing discovered while reachable_size
\* marks the roots first.
C19_DfsYieldsSummedNodes ==
    (pc = "done" /\ result.op = "dfs" /\ roots_attr_coherent) =>
      /\ Range(yielded) = Range(SummedByReachableSize)
      /\ Len(yielded) = Len(SummedByReachableSize)
      /\ NoDuplicates(yielded)
      /\ Range(yielded) = Reachable

\* two roots that both reach node 3, which reaches node 4 and itself
C19_Witness ==
    /\ pc = "done" /\ result.op = "dfs" /\ roots_attr_coherent
    /\ roots = <<1, 2>>
    /\ edges = <<<<1, 3>>, <<2, 3>>, <<3, 3>>, <<3, 4>>>>
    /\ Range(yielded) = {1, 2, 3, 4} /\ Len(yielded) = 4

====
